---- MODULE Spec2Model ----
(***************************************************************************)
(* Model of xinfer/transformers/joycaption.py: the JoyCaption adapter.     *)
(* Construction (dtype validation, base construction, load_model), the     *)
(* two preprocessing routines (image-token expansion, right padding) and   *)
(* the two inference entry points (infer, infer_batch) with their timing   *)
(* scope and inference counter.                                            *)
(*                                                                         *)
(* The tokenizer, the image pipeline and model.generate are collaborators  *)
(* outside the file; they are modelled by small tables and by              *)
(* nondeterministic choices (a sampling seed, a number of new tokens, a    *)
(* failure).                                                               *)
(***************************************************************************)
EXTENDS Integers, Sequences, FiniteSets, TLC

VARIABLES
    adapter,          \* "none" | "base" | "ready" | "failed": progress of __init__
    req_dtype,        \* the dtype string __init__ was called with
    self_dtype,       \* self.dtype as stored by the base constructor
    ctor_error,       \* exception raised by __init__, "none" if none
    load_invoked,     \* load_model has been entered
    tokenizer,        \* self.tokenizer acquired
    model,            \* self.model acquired
    count,            \* stats inference count
    scope_open,       \* inside `with self.stats.track_inference_time()`
    pc,               \* position of the current infer / infer_batch call
    call,             \* arguments of the current call
    images_t,         \* local `image` / `images` after preprocessing (tensor rows)
    input_ids,        \* local input_ids: a matrix, one row per example
    attention_mask,   \* local attention_mask, same shape
    generate_kwargs,  \* local generate_kwargs after the default is applied
    gen_call,         \* what model.generate received in this call
    generate_ids,     \* rows returned by model.generate
    captions,         \* local caption list built by the decode loop
    result,           \* value returned to the caller
    error,            \* exception that reached the caller
    new_tokens,       \* history: the new tokens generate appended to each row
    decoded_ids,      \* history: the ids handed to tokenizer.decode, per row
    trace,            \* history: the steps the current call has performed
    count_at_call,    \* history: inference count when the current call began
    ok_infers,        \* history: number of infer calls that returned
    ok_batch_pairs,   \* history: sum of zipped pairs of infer_batch calls that returned
    p_pc,             \* preprocessing study: position
    p_N,              \* preprocessing study: image_seq_length
    p_convo,          \* preprocessing study: convo_tokens of each example
    p_ids_list,       \* preprocessing study: input_ids_list
    p_padded,         \* preprocessing study: padded_input_ids
    p_mask,           \* preprocessing study: attention_mask_tensor
    p_single          \* preprocessing study: input_ids row built by preprocess

vars == <<adapter, req_dtype, self_dtype, ctor_error, load_invoked, tokenizer, model,
          count, scope_open, pc, call, images_t, input_ids, attention_mask,
          generate_kwargs, gen_call, generate_ids, captions, result, error,
          new_tokens, decoded_ids, trace, count_at_call, ok_infers,
          ok_batch_pairs, p_pc, p_N, p_convo, p_ids_list, p_padded, p_mask,
          p_single>>

ctorVars == <<adapter, req_dtype, self_dtype, ctor_error, load_invoked, tokenizer, model>>
callVars == <<count, scope_open, pc, call, images_t, input_ids, attention_mask,
              generate_kwargs, gen_call, generate_ids, captions, result, error,
              new_tokens, decoded_ids, trace, count_at_call, ok_infers,
              ok_batch_pairs>>
preVars == <<p_pc, p_N, p_convo, p_ids_list, p_padded, p_mask, p_single>>

-----------------------------------------------------------------------------
(* Bounds *)

MaxBatch == 2        \* longest images / prompts list passed to infer_batch
MaxNew == 2          \* most new tokens the generation stand-in appends
MaxCount == 2        \* calls start only while the inference count is below this
ImageSeqLength == 2  \* model.config.image_seq_length of the loaded model
MaxLen == 2          \* preprocessing study: longest convo_tokens
MaxN == 2            \* preprocessing study: largest image_seq_length
MaxPreBatch == 2     \* preprocessing study: largest batch
NumSeeds == 2        \* sampling outcomes of the generation stand-in

-----------------------------------------------------------------------------
(* Generic helpers *)

Min(a, b) == IF a < b THEN a ELSE b

RECURSIVE MaxOf(_)
MaxOf(s) == IF Len(s) = 1 THEN s[1]
            ELSE LET m == MaxOf(Tail(s)) IN IF s[1] > m THEN s[1] ELSE m

Repeat(x, n) == [i \in 1..n |-> x]

SeqsUpTo(S, n) == UNION {[1..k -> S] : k \in 0..n}

-----------------------------------------------------------------------------
(* Token vocabulary of the tokenizer stand-in *)

image_token_index == 1
PadId == 0
DefaultMaxNewTokens == 300

SpecialTokens == {image_token_index}

\* tokenizer.encode on one piece of text
EncodePiece(c) == CASE c = "!" -> 0
                    [] c = "<image>" -> image_token_index
                    [] c = " " -> 2
                    [] OTHER -> 3

\* tokenizer.apply_chat_template followed by tokenizer.encode: the rendered
\* conversation carries the image placeholder, then the user's prompt.
EncodeConvo(prompt) ==
    <<image_token_index>> \o [i \in 1..Len(prompt) |-> EncodePiece(prompt[i])]

TokenText(t) == CASE t = 0 -> "!"
                  [] t = 2 -> " "
                  [] OTHER -> "a"

RECURSIVE SkipSpecial(_)
SkipSpecial(ids) ==
    IF ids = <<>> THEN <<>>
    ELSE IF Head(ids) \in SpecialTokens THEN SkipSpecial(Tail(ids))
    ELSE <<TokenText(Head(ids))>> \o SkipSpecial(Tail(ids))

\* tokenizer.decode(ids, skip_special_tokens=True, ...)
Decode(ids) == SkipSpecial(ids)

RECURSIVE LStrip(_)
LStrip(s) == IF s # <<>> /\ Head(s) = " " THEN LStrip(Tail(s)) ELSE s

RECURSIVE RStrip(_)
RStrip(s) == IF s # <<>> /\ s[Len(s)] = " " THEN RStrip(SubSeq(s, 1, Len(s) - 1)) ELSE s

\* str.strip()
Strip(s) == RStrip(LStrip(s))

-----------------------------------------------------------------------------
(* Preprocessing *)

\* Mutant: a placeholder is copied through once instead of being repeated.
RECURSIVE ExpandTokensOnce(_, _)
ExpandTokensOnce(convo_tokens, N) ==
    IF convo_tokens = <<>> THEN <<>>
    ELSE <<Head(convo_tokens)>> \o ExpandTokensOnce(Tail(convo_tokens), N)

\* preprocess: "Repeat the image tokens"
RECURSIVE ExpandTokens(_, _)
ExpandTokens(convo_tokens, N) ==
    IF convo_tokens = <<>> THEN <<>>
    ELSE (IF Head(convo_tokens) = image_token_index
          THEN Repeat(image_token_index, N)
          ELSE <<Head(convo_tokens)>>)
         \o ExpandTokens(Tail(convo_tokens), N)

\* preprocess_batch: the same loop, written a second time in the source
RECURSIVE ExpandTokensBatch(_, _)
ExpandTokensBatch(convo_tokens, N) ==
    IF convo_tokens = <<>> THEN <<>>
    ELSE (IF Head(convo_tokens) = image_token_index
          THEN Repeat(image_token_index, N)
          ELSE <<Head(convo_tokens)>>)
         \o ExpandTokensBatch(Tail(convo_tokens), N)

\* max(ids.size(0) for ids in input_ids_list)
MaxLength(ids_list) == MaxOf([i \in 1..Len(ids_list) |-> Len(ids_list[i])])

\* Mutant: the row is padded on the left.
PadRowLeft(ids, max_length) ==
    [j \in 1..max_length |->
        IF j > max_length - Len(ids) THEN ids[j - (max_length - Len(ids))] ELSE PadId]

\* padded_input_ids[i, : ids.size(0)] = ids   over a torch.zeros row
PadRow(ids, max_length) ==
    [j \in 1..max_length |-> IF j <= Len(ids) THEN ids[j] ELSE PadId]

\* torch.ones(max_length); mask[ids.size(0):] = 0
MaskRow(ids, max_length) ==
    [j \in 1..max_length |-> IF j <= Len(ids) THEN 1 ELSE 0]

PadBatch(ids_list) ==
    [i \in 1..Len(ids_list) |-> PadRow(ids_list[i], MaxLength(ids_list))]

MaskBatch(ids_list) ==
    [i \in 1..Len(ids_list) |-> MaskRow(ids_list[i], MaxLength(ids_list))]

-----------------------------------------------------------------------------
(* Construction *)

Dtypes == {"float32", "float16", "bfloat16", "float64", "int8"}

dtype_map == [float32 |-> "torch.float32",
              float16 |-> "torch.float16",
              bfloat16 |-> "torch.bfloat16"]

\* `dtype not in dtype_map` negated
ValidDtype(dtype) == dtype \in DOMAIN dtype_map

\* Mutant: the dtype is looked at only after the resources were loaded.
InitValidateLate ==
    /\ adapter = "none"
    /\ \E dtype \in Dtypes :
        /\ req_dtype' = dtype
        /\ IF ~ValidDtype(dtype)
           THEN /\ ctor_error' = "ValueError"
                /\ adapter' = "failed"
                /\ self_dtype' = self_dtype
                /\ load_invoked' = TRUE
                /\ tokenizer' = TRUE
                /\ model' = TRUE
           ELSE /\ self_dtype' = dtype_map[dtype]
                /\ adapter' = "base"
                /\ ctor_error' = ctor_error
                /\ UNCHANGED <<load_invoked, tokenizer, model>>
    /\ UNCHANGED callVars
    /\ UNCHANGED preVars

\* __init__ up to and including super().__init__: an unknown dtype raises
\* ValueError before anything else runs; a known one is mapped and stored.
InitValidate ==
    /\ adapter = "none"
    /\ \E dtype \in Dtypes :
        /\ req_dtype' = dtype
        /\ IF ~ValidDtype(dtype)
           THEN /\ ctor_error' = "ValueError"
                /\ adapter' = "failed"
                /\ self_dtype' = self_dtype
           ELSE /\ self_dtype' = dtype_map[dtype]
                /\ adapter' = "base"
                /\ ctor_error' = ctor_error
    /\ UNCHANGED <<load_invoked, tokenizer, model>>
    /\ UNCHANGED callVars
    /\ UNCHANGED preVars

\* load_model: tokenizer, then weights
LoadModel ==
    /\ adapter = "base"
    /\ load_invoked' = TRUE
    /\ tokenizer' = TRUE
    /\ model' = TRUE
    /\ adapter' = "ready"
    /\ UNCHANGED <<req_dtype, self_dtype, ctor_error>>
    /\ UNCHANGED callVars
    /\ UNCHANGED preVars

\* load_model when from_pretrained raises: at the tokenizer (nothing held)
\* or at the weights (tokenizer held); the exception leaves __init__.
LoadModelRaise ==
    /\ adapter = "base"
    /\ load_invoked' = TRUE
    /\ \E got_tokenizer \in BOOLEAN : tokenizer' = got_tokenizer
    /\ model' = FALSE
    /\ adapter' = "failed"
    /\ ctor_error' = "OSError"
    /\ UNCHANGED <<req_dtype, self_dtype>>
    /\ UNCHANGED callVars
    /\ UNCHANGED preVars

-----------------------------------------------------------------------------
(* Call inputs *)

Images == {"cat.jpg", "missing.jpg"}

\* Image.open succeeds
Readable(image) == image # "missing.jpg"

Prompts == {<<"a">>, <<"a", "!">>, <<"<image>">>}

EmptyKwargs == [k \in {} |-> 0]

Kwargs == {EmptyKwargs,
           [max_new_tokens |-> 0],
           [max_new_tokens |-> 1],
           [top_k |-> 5],
           [max_new_tokens |-> 1, top_k |-> 5],
           [do_sample |-> FALSE]}

\* keyword names the call to model.generate spells out itself
FixedKeys == {"input_ids", "pixel_values", "attention_mask",
              "do_sample", "suppress_tokens", "use_cache"}

NoResult == [returned |-> FALSE, value |-> <<>>]
NoGenCall == [called |-> FALSE]

Between == pc = "idle"

\* stats.update_inference_count(n) on a counter holding c
UpdateInferenceCount(c, n) == c + n

\* a call may begin: the adapter is built and no call is in flight
MayCall == adapter = "ready" /\ Between /\ count < MaxCount

\* entering `with self.stats.track_inference_time():` with fresh locals
Enter(c) ==
    /\ call' = c
    /\ pc' = "entered"
    /\ scope_open' = TRUE
    /\ trace' = <<"open">>
    /\ count_at_call' = count
    /\ images_t' = <<>>
    /\ input_ids' = <<>>
    /\ attention_mask' = <<>>
    /\ generate_kwargs' = c.kwargs
    /\ gen_call' = NoGenCall
    /\ generate_ids' = <<>>
    /\ captions' = <<>>
    /\ new_tokens' = <<>>
    /\ decoded_ids' = <<>>
    /\ result' = NoResult
    /\ error' = "none"
    /\ UNCHANGED <<count, ok_infers, ok_batch_pairs>>
    /\ UNCHANGED ctorVars
    /\ UNCHANGED preVars

\* infer(image, prompt, **generate_kwargs) is called
CallInfer ==
    /\ MayCall
    /\ \E image \in Images, prompt \in Prompts, kw \in Kwargs :
        Enter([kind |-> "infer", images |-> <<image>>,
               prompts |-> <<prompt>>, kwargs |-> kw])

\* infer_batch(images, prompts, **generate_kwargs) is called
CallInferBatch ==
    /\ MayCall
    /\ \E images \in SeqsUpTo(Images, MaxBatch),
       prompts \in SeqsUpTo(Prompts, MaxBatch), kw \in Kwargs :
        Enter([kind |-> "infer_batch", images |-> images,
               prompts |-> prompts, kwargs |-> kw])

\* Mutant: the counter is updated on the way out of a failing call.
RaiseCounting(exc) ==
    /\ error' = exc
    /\ pc' = "raised"
    /\ scope_open' = FALSE
    /\ trace' = Append(trace, "close")
    /\ count' = count + 1
    /\ UNCHANGED <<call, captions, result, count_at_call, ok_infers,
                   ok_batch_pairs>>
    /\ UNCHANGED ctorVars
    /\ UNCHANGED preVars

\* An exception leaves the `with` blocks: the timing scope's exit runs,
\* nothing after the blocks runs, the caller sees the exception.
Raise(exc) ==
    /\ error' = exc
    /\ pc' = "raised"
    /\ scope_open' = FALSE
    /\ trace' = Append(trace, "close")
    /\ UNCHANGED <<count, call, captions, result, count_at_call, ok_infers,
                   ok_batch_pairs>>
    /\ UNCHANGED ctorVars
    /\ UNCHANGED preVars

-----------------------------------------------------------------------------
(* infer *)

Width(matrix) == Len(matrix[1])

Drop(row, n) == SubSeq(row, n + 1, Len(row))

\* self.preprocess(image, prompt) returns
InferPreprocess ==
    /\ pc = "entered" /\ call.kind = "infer"
    /\ Readable(call.images[1])
    /\ images_t' = <<call.images[1]>>
    /\ input_ids' = <<ExpandTokens(EncodeConvo(call.prompts[1]), ImageSeqLength)>>
    /\ attention_mask' = <<Repeat(1, Len(input_ids'[1]))>>
    /\ trace' = Append(trace, "preprocess")
    /\ pc' = "preprocessed"
    /\ UNCHANGED <<count, scope_open, call, generate_kwargs, gen_call,
                   generate_ids, captions, result, error, new_tokens,
                   decoded_ids, count_at_call, ok_infers, ok_batch_pairs>>
    /\ UNCHANGED ctorVars
    /\ UNCHANGED preVars

\* self.preprocess raises at Image.open
InferPreprocessRaise ==
    /\ pc = "entered" /\ call.kind = "infer"
    /\ ~Readable(call.images[1])
    /\ Raise("FileNotFoundError")
    /\ UNCHANGED <<images_t, input_ids, attention_mask, generate_kwargs,
                   gen_call, generate_ids, new_tokens, decoded_ids>>

\* Mutant: the default replaces the caller's value.
AlwaysDefault(kw) == ("max_new_tokens" :> DefaultMaxNewTokens) @@ kw

\* infer: if "max_new_tokens" not in generate_kwargs: ... = 300
WithDefault(kw) ==
    IF "max_new_tokens" \notin DOMAIN kw
    THEN ("max_new_tokens" :> DefaultMaxNewTokens) @@ kw
    ELSE kw

\* infer_batch: the same two lines
WithDefaultBatch(kw) ==
    IF "max_new_tokens" \notin DOMAIN kw
    THEN ("max_new_tokens" :> DefaultMaxNewTokens) @@ kw
    ELSE kw

\* a keyword spelled out in the call and present in **generate_kwargs
Collides(kw) == DOMAIN kw \cap FixedKeys # {}

\* what model.generate is handed
GenArgs(kw) ==
    [called |-> TRUE,
     input_ids |-> input_ids,
     pixel_values |-> images_t,
     attention_mask |-> attention_mask,
     do_sample |-> TRUE,
     suppress_tokens |-> "None",
     use_cache |-> TRUE,
     kwargs |-> kw]

\* the generation stand-in: each input row followed by n sampled tokens
Stream == <<3, 2, 0, 1>>
Sample(seed, i, n) == [j \in 1..n |-> Stream[((seed + i + j) % 4) + 1]]

\* Mutant: the counter is updated as soon as generation returns.
InferGenerateCounting ==
    /\ pc = "preprocessed" /\ call.kind = "infer"
    /\ generate_kwargs' = WithDefault(generate_kwargs)
    /\ ~Collides(generate_kwargs')
    /\ gen_call' = GenArgs(generate_kwargs')
    /\ \E seed \in 0..(NumSeeds - 1),
          n \in 0..Min(generate_kwargs'.max_new_tokens, MaxNew) :
        /\ new_tokens' = <<Sample(seed, 1, n)>>
        /\ generate_ids' = <<input_ids[1] \o Sample(seed, 1, n)>>
    /\ count' = count + 1
    /\ trace' = Append(trace, "generate")
    /\ pc' = "generated"
    /\ UNCHANGED <<scope_open, call, images_t, input_ids,
                   attention_mask, captions, result, error, decoded_ids,
                   count_at_call, ok_infers, ok_batch_pairs>>
    /\ UNCHANGED ctorVars
    /\ UNCHANGED preVars

\* model.generate(...)[0] returns
InferGenerate ==
    /\ pc = "preprocessed" /\ call.kind = "infer"
    /\ generate_kwargs' = WithDefault(generate_kwargs)
    /\ ~Collides(generate_kwargs')
    /\ gen_call' = GenArgs(generate_kwargs')
    /\ \E seed \in 0..(NumSeeds - 1),
          n \in 0..Min(generate_kwargs'.max_new_tokens, MaxNew) :
        /\ new_tokens' = <<Sample(seed, 1, n)>>
        /\ generate_ids' = <<input_ids[1] \o Sample(seed, 1, n)>>
    /\ trace' = Append(trace, "generate")
    /\ pc' = "generated"
    /\ UNCHANGED <<count, scope_open, call, images_t, input_ids,
                   attention_mask, captions, result, error, decoded_ids,
                   count_at_call, ok_infers, ok_batch_pairs>>
    /\ UNCHANGED ctorVars
    /\ UNCHANGED preVars

\* the call expression raises TypeError on a repeated keyword
InferGenerateCollide ==
    /\ pc = "preprocessed" /\ call.kind = "infer"
    /\ generate_kwargs' = WithDefault(generate_kwargs)
    /\ Collides(generate_kwargs')
    /\ Raise("TypeError")
    /\ UNCHANGED <<images_t, input_ids, attention_mask, gen_call,
                   generate_ids, new_tokens, decoded_ids>>

\* model.generate raises
InferGenerateRaise ==
    /\ pc = "preprocessed" /\ call.kind = "infer"
    /\ generate_kwargs' = WithDefault(generate_kwargs)
    /\ ~Collides(generate_kwargs')
    /\ gen_call' = GenArgs(generate_kwargs')
    /\ Raise("GenerationError")
    /\ UNCHANGED <<images_t, input_ids, attention_mask, generate_ids,
                   new_tokens, decoded_ids>>

\* Mutant: the prompt length is taken before the image tokens were repeated.
InferTrimUnexpanded(gen_row) == Drop(gen_row, Len(EncodeConvo(call.prompts[1])))

\* generate_ids[input_ids.shape[1]:]
InferTrim(gen_row) == Drop(gen_row, Width(input_ids))

\* trim, decode, strip
InferDecode ==
    /\ pc = "generated" /\ call.kind = "infer"
    /\ captions = <<>>
    /\ decoded_ids' = <<InferTrim(generate_ids[1])>>
    /\ captions' = <<Strip(Decode(InferTrim(generate_ids[1])))>>
    /\ trace' = Append(trace, "decode")
    /\ UNCHANGED <<count, scope_open, pc, call, images_t, input_ids,
                   attention_mask, generate_kwargs, gen_call, generate_ids,
                   result, error, new_tokens, count_at_call, ok_infers,
                   ok_batch_pairs>>
    /\ UNCHANGED ctorVars
    /\ UNCHANGED preVars

\* tokenizer.decode raises
InferDecodeRaise ==
    /\ pc = "generated" /\ call.kind = "infer"
    /\ captions = <<>>
    /\ Raise("DecodeError")
    /\ UNCHANGED <<images_t, input_ids, attention_mask, generate_kwargs,
                   gen_call, generate_ids, new_tokens, decoded_ids>>

\* leaving the `with` blocks normally
InferExitScope ==
    /\ pc = "generated" /\ call.kind = "infer"
    /\ Len(captions) = 1
    /\ scope_open' = FALSE
    /\ trace' = Append(trace, "close")
    /\ pc' = "exited"
    /\ UNCHANGED <<count, call, images_t, input_ids, attention_mask,
                   generate_kwargs, gen_call, generate_ids, captions, result,
                   error, new_tokens, decoded_ids, count_at_call, ok_infers,
                   ok_batch_pairs>>
    /\ UNCHANGED ctorVars
    /\ UNCHANGED preVars

\* self.stats.update_inference_count(1)
InferUpdateCount ==
    /\ pc = "exited" /\ call.kind = "infer"
    /\ count' = UpdateInferenceCount(count, 1)
    /\ trace' = Append(trace, "count")
    /\ pc' = "counted"
    /\ UNCHANGED <<scope_open, call, images_t, input_ids, attention_mask,
                   generate_kwargs, gen_call, generate_ids, captions, result,
                   error, new_tokens, decoded_ids, count_at_call, ok_infers,
                   ok_batch_pairs>>
    /\ UNCHANGED ctorVars
    /\ UNCHANGED preVars

\* return caption
InferReturn ==
    /\ pc = "counted" /\ call.kind = "infer"
    /\ result' = [returned |-> TRUE, value |-> captions[1]]
    /\ ok_infers' = ok_infers + 1
    /\ pc' = "returned"
    /\ UNCHANGED <<count, scope_open, call, images_t, input_ids,
                   attention_mask, generate_kwargs, gen_call, generate_ids,
                   captions, error, new_tokens, decoded_ids, trace,
                   count_at_call, ok_batch_pairs>>
    /\ UNCHANGED ctorVars
    /\ UNCHANGED preVars

-----------------------------------------------------------------------------
(* infer_batch *)

\* zip(images, prompts) stops at the shorter list
NumPairs(images, prompts) == Min(Len(images), Len(prompts))

\* self.preprocess_batch(images, prompts) returns; the local name `images`
\* now holds the stacked tensor
BatchPreprocess ==
    /\ pc = "entered" /\ call.kind = "infer_batch"
    /\ LET n == NumPairs(call.images, call.prompts)
           ids_list == [i \in 1..n |->
                           ExpandTokensBatch(EncodeConvo(call.prompts[i]),
                                             ImageSeqLength)]
       IN /\ \A i \in 1..n : Readable(call.images[i])
          /\ n > 0
          /\ images_t' = [i \in 1..n |-> call.images[i]]
          /\ input_ids' = PadBatch(ids_list)
          /\ attention_mask' = MaskBatch(ids_list)
    /\ trace' = Append(trace, "preprocess")
    /\ pc' = "preprocessed"
    /\ UNCHANGED <<count, scope_open, call, generate_kwargs, gen_call,
                   generate_ids, captions, result, error, new_tokens,
                   decoded_ids, count_at_call, ok_infers, ok_batch_pairs>>
    /\ UNCHANGED ctorVars
    /\ UNCHANGED preVars

\* self.preprocess_batch raises: Image.open on some pair, or max() of an
\* empty input_ids_list when zip yields no pair
BatchPreprocessRaise ==
    /\ pc = "entered" /\ call.kind = "infer_batch"
    /\ LET n == NumPairs(call.images, call.prompts)
       IN IF \E i \in 1..n : ~Readable(call.images[i])
          THEN Raise("FileNotFoundError")
          ELSE n = 0 /\ Raise("ValueError")
    /\ UNCHANGED <<images_t, input_ids, attention_mask, generate_kwargs,
                   gen_call, generate_ids, new_tokens, decoded_ids>>

\* model.generate(...) returns, one row per input row
BatchGenerate ==
    /\ pc = "preprocessed" /\ call.kind = "infer_batch"
    /\ generate_kwargs' = WithDefaultBatch(generate_kwargs)
    /\ ~Collides(generate_kwargs')
    /\ gen_call' = GenArgs(generate_kwargs')
    /\ \E seed \in 0..(NumSeeds - 1),
          n \in 0..Min(generate_kwargs'.max_new_tokens, MaxNew) :
        /\ new_tokens' = [i \in 1..Len(input_ids) |-> Sample(seed, i, n)]
        /\ generate_ids' = [i \in 1..Len(input_ids) |->
                               input_ids[i] \o Sample(seed, i, n)]
    /\ trace' = Append(trace, "generate")
    /\ pc' = "generated"
    /\ UNCHANGED <<count, scope_open, call, images_t, input_ids,
                   attention_mask, captions, result, error, decoded_ids,
                   count_at_call, ok_infers, ok_batch_pairs>>
    /\ UNCHANGED ctorVars
    /\ UNCHANGED preVars

\* the call expression raises TypeError on a repeated keyword
BatchGenerateCollide ==
    /\ pc = "preprocessed" /\ call.kind = "infer_batch"
    /\ generate_kwargs' = WithDefaultBatch(generate_kwargs)
    /\ Collides(generate_kwargs')
    /\ Raise("TypeError")
    /\ UNCHANGED <<images_t, input_ids, attention_mask, gen_call,
                   generate_ids, new_tokens, decoded_ids>>

\* model.generate raises
BatchGenerateRaise ==
    /\ pc = "preprocessed" /\ call.kind = "infer_batch"
    /\ generate_kwargs' = WithDefaultBatch(generate_kwargs)
    /\ ~Collides(generate_kwargs')
    /\ gen_call' = GenArgs(generate_kwargs')
    /\ Raise("GenerationError")
    /\ UNCHANGED <<images_t, input_ids, attention_mask, generate_ids,
                   new_tokens, decoded_ids>>

\* Mutant: row i is trimmed by its own length before padding.
BatchTrimOwnLength(i, gen_ids) ==
    Drop(gen_ids, Len(SelectSeq(attention_mask[i], LAMBDA b : b = 1)))

\* gen_ids[input_ids.shape[1]:] on row i of generate_ids
BatchTrim(i, gen_ids) == Drop(gen_ids, Width(input_ids))

\* one pass of the loop over generate_ids: trim, decode, strip, append
BatchDecodeRow ==
    /\ pc = "generated" /\ call.kind = "infer_batch"
    /\ Len(captions) < Len(generate_ids)
    /\ LET i == Len(captions) + 1
       IN /\ decoded_ids' = Append(decoded_ids, BatchTrim(i, generate_ids[i]))
          /\ captions' = Append(captions,
                                Strip(Decode(BatchTrim(i, generate_ids[i]))))
    /\ trace' = Append(trace, "decode")
    /\ UNCHANGED <<count, scope_open, pc, call, images_t, input_ids,
                   attention_mask, generate_kwargs, gen_call, generate_ids,
                   result, error, new_tokens, count_at_call, ok_infers,
                   ok_batch_pairs>>
    /\ UNCHANGED ctorVars
    /\ UNCHANGED preVars

\* tokenizer.decode raises on some row; the captions built so far are lost
BatchDecodeRaise ==
    /\ pc = "generated" /\ call.kind = "infer_batch"
    /\ Len(captions) < Len(generate_ids)
    /\ Raise("DecodeError")
    /\ UNCHANGED <<images_t, input_ids, attention_mask, generate_kwargs,
                   gen_call, generate_ids, new_tokens, decoded_ids>>

\* leaving the `with` blocks normally, the loop being over
BatchExitScope ==
    /\ pc = "generated" /\ call.kind = "infer_batch"
    /\ Len(captions) = Len(generate_ids)
    /\ scope_open' = FALSE
    /\ trace' = Append(trace, "close")
    /\ pc' = "exited"
    /\ UNCHANGED <<count, call, images_t, input_ids, attention_mask,
                   generate_kwargs, gen_call, generate_ids, captions, result,
                   error, new_tokens, decoded_ids, count_at_call, ok_infers,
                   ok_batch_pairs>>
    /\ UNCHANGED ctorVars
    /\ UNCHANGED preVars

\* Mutant: the length of the caller's image list is counted.
BatchCountArgCallerList == Len(call.images)

\* len(images): `images` is the tensor preprocess_batch returned
BatchCountArg == Len(images_t)

\* self.stats.update_inference_count(len(images))
BatchUpdateCount ==
    /\ pc = "exited" /\ call.kind = "infer_batch"
    /\ count' = UpdateInferenceCount(count, BatchCountArg)
    /\ trace' = Append(trace, "count")
    /\ pc' = "counted"
    /\ UNCHANGED <<scope_open, call, images_t, input_ids, attention_mask,
                   generate_kwargs, gen_call, generate_ids, captions, result,
                   error, new_tokens, decoded_ids, count_at_call, ok_infers,
                   ok_batch_pairs>>
    /\ UNCHANGED ctorVars
    /\ UNCHANGED preVars

\* return captions
BatchReturn ==
    /\ pc = "counted" /\ call.kind = "infer_batch"
    /\ result' = [returned |-> TRUE, value |-> captions]
    /\ ok_batch_pairs' = ok_batch_pairs + NumPairs(call.images, call.prompts)
    /\ pc' = "returned"
    /\ UNCHANGED <<count, scope_open, call, images_t, input_ids,
                   attention_mask, generate_kwargs, gen_call, generate_ids,
                   captions, error, new_tokens, decoded_ids, trace,
                   count_at_call, ok_infers>>
    /\ UNCHANGED ctorVars
    /\ UNCHANGED preVars

-----------------------------------------------------------------------------
(* Between calls *)

\* The caller has taken the return value or the exception; the finished
\* call's frame and its locals are gone.
FrameGone ==
    /\ pc \in {"returned", "raised"}
    /\ pc' = "idle"
    /\ call' = [kind |-> "none", images |-> <<>>, prompts |-> <<>>,
                kwargs |-> EmptyKwargs]
    /\ images_t' = <<>>
    /\ input_ids' = <<>>
    /\ attention_mask' = <<>>
    /\ generate_kwargs' = EmptyKwargs
    /\ gen_call' = NoGenCall
    /\ generate_ids' = <<>>
    /\ captions' = <<>>
    /\ result' = NoResult
    /\ error' = "none"
    /\ new_tokens' = <<>>
    /\ decoded_ids' = <<>>
    /\ trace' = <<>>
    /\ count_at_call' = count
    /\ UNCHANGED <<count, scope_open, ok_infers, ok_batch_pairs>>
    /\ UNCHANGED ctorVars
    /\ UNCHANGED preVars

-----------------------------------------------------------------------------
(* The adapter's life: construction, then calls one at a time *)

PreOff ==
    /\ p_pc = "off"
    /\ p_N = ImageSeqLength
    /\ p_convo = <<>>
    /\ p_ids_list = <<>>
    /\ p_padded = <<>>
    /\ p_mask = <<>>
    /\ p_single = <<>>

Unbuilt ==
    /\ adapter = "none"
    /\ req_dtype = "unset"
    /\ self_dtype = "unset"
    /\ ctor_error = "none"
    /\ load_invoked = FALSE
    /\ tokenizer = FALSE
    /\ model = FALSE
    /\ count = 0
    /\ scope_open = FALSE
    /\ pc = "idle"
    /\ call = [kind |-> "none", images |-> <<>>, prompts |-> <<>>,
               kwargs |-> EmptyKwargs]
    /\ images_t = <<>>
    /\ input_ids = <<>>
    /\ attention_mask = <<>>
    /\ generate_kwargs = EmptyKwargs
    /\ gen_call = NoGenCall
    /\ generate_ids = <<>>
    /\ captions = <<>>
    /\ result = NoResult
    /\ error = "none"
    /\ new_tokens = <<>>
    /\ decoded_ids = <<>>
    /\ trace = <<>>
    /\ count_at_call = 0
    /\ ok_infers = 0
    /\ ok_batch_pairs = 0

Init == Unbuilt /\ PreOff

Next ==
    \/ InitValidate
    \/ LoadModel
    \/ LoadModelRaise
    \/ CallInfer
    \/ InferPreprocess
    \/ InferPreprocessRaise
    \/ InferGenerate
    \/ InferGenerateCollide
    \/ InferGenerateRaise
    \/ InferDecode
    \/ InferDecodeRaise
    \/ InferExitScope
    \/ InferUpdateCount
    \/ InferReturn
    \/ CallInferBatch
    \/ BatchPreprocess
    \/ BatchPreprocessRaise
    \/ BatchGenerate
    \/ BatchGenerateCollide
    \/ BatchGenerateRaise
    \/ BatchDecodeRow
    \/ BatchDecodeRaise
    \/ BatchExitScope
    \/ BatchUpdateCount
    \/ BatchReturn
    \/ FrameGone

Spec == Init /\ [][Next]_vars

-----------------------------------------------------------------------------
(* Preprocessing on its own: every token sequence the tokenizer could      *)
(* return, up to MaxLen, and every image_seq_length up to MaxN.            *)

\* the filler id, the placeholder id and one ordinary id
StudyTokenIds == {PadId, image_token_index, 2}

ConvoTokens == SeqsUpTo(StudyTokenIds, MaxLen)

\* preprocess: the expansion loop and the tensor built from it
PreSingle ==
    /\ p_pc = "start"
    /\ \E convo_tokens \in ConvoTokens :
        /\ p_convo' = <<convo_tokens>>
        /\ p_single' = ExpandTokens(convo_tokens, p_N)
    /\ p_pc' = "single"
    /\ UNCHANGED <<p_N, p_ids_list, p_padded, p_mask>>
    /\ UNCHANGED ctorVars
    /\ UNCHANGED callVars

\* preprocess_batch: one pass of the loop over zip(images, prompts)
PreLoop ==
    /\ p_pc \in {"start", "loop"}
    /\ Len(p_ids_list) < MaxPreBatch
    /\ \E convo_tokens \in ConvoTokens :
        /\ p_convo' = Append(p_convo, convo_tokens)
        /\ p_ids_list' = Append(p_ids_list, ExpandTokensBatch(convo_tokens, p_N))
    /\ p_pc' = "loop"
    /\ UNCHANGED <<p_N, p_padded, p_mask, p_single>>
    /\ UNCHANGED ctorVars
    /\ UNCHANGED callVars

\* preprocess_batch: "Pad input_ids to the same length"
PrePad ==
    /\ p_pc = "loop"
    /\ p_padded' = PadBatch(p_ids_list)
    /\ p_mask' = MaskBatch(p_ids_list)
    /\ p_pc' = "padded"
    /\ UNCHANGED <<p_N, p_convo, p_ids_list, p_single>>
    /\ UNCHANGED ctorVars
    /\ UNCHANGED callVars

InitPre ==
    /\ Unbuilt
    /\ p_pc = "start"
    /\ p_N \in 0..MaxN
    /\ p_convo = <<>>
    /\ p_ids_list = <<>>
    /\ p_padded = <<>>
    /\ p_mask = <<>>
    /\ p_single = <<>>

NextPre == PreSingle \/ PreLoop \/ PrePad

SpecPre == InitPre /\ [][NextPre]_vars

-----------------------------------------------------------------------------
(* Properties *)

\* C1: between calls the inference count equals the number of infer calls
\* that returned plus the sum of the numbers of input pairs of the
\* infer_batch calls that returned; a returning infer has added exactly 1, a
\* returning infer_batch exactly its number of pairs; the count never
\* decreases.
C1_CountMatchesCompletedCalls ==
    /\ [](pc \in {"idle", "returned", "raised"}
            => count = ok_infers + ok_batch_pairs)
    /\ [](pc = "returned"
            => count = count_at_call
                         + (IF call.kind = "infer" THEN 1
                            ELSE Min(Len(call.images), Len(call.prompts))))
    /\ [][count' >= count]_vars

C1_Witness ==
    /\ pc = "returned"
    /\ call.kind = "infer_batch"
    /\ Len(call.images) = 2 /\ Len(call.prompts) = 2
    /\ ok_infers = 1
    /\ ok_batch_pairs = 2
    /\ count = 3

\* C2: a call that fails in preprocessing, generation or decoding hands the
\* exception to the caller, returns nothing (no partial caption list) and
\* leaves the inference count as it was when the call began.
C2_FailureLeavesCountAndReturnsNothing ==
    pc = "raised" =>
        /\ error # "none"
        /\ result.returned = FALSE
        /\ count = count_at_call
        /\ \A k \in 1..Len(trace) : trace[k] # "count"

C2_Witness ==
    /\ pc = "raised"
    /\ call.kind = "infer_batch"
    /\ error = "DecodeError"
    /\ Len(generate_ids) = 2
    /\ Len(captions) = 1
    /\ result.returned = FALSE
    /\ count = count_at_call

\* C3: a returning infer_batch hands back exactly one caption per input
\* image path and per input prompt, caption i decoded from the generation
\* row built from (image_paths[i], prompts[i]).
C3_OneCaptionPerInput ==
    (pc = "returned" /\ call.kind = "infer_batch") =>
        /\ Len(result.value) = Len(call.images)
        /\ Len(result.value) = Len(call.prompts)
        /\ \A i \in 1..Len(result.value) :
            /\ gen_call.pixel_values[i] = call.images[i]
            /\ SelectSeq(SubSeq(gen_call.input_ids[i], 1,
                                Len(SelectSeq(gen_call.attention_mask[i],
                                              LAMBDA b : b = 1))),
                         LAMBDA t : t # image_token_index)
                 = SelectSeq(EncodeConvo(call.prompts[i]),
                             LAMBDA t : t # image_token_index)
            /\ result.value[i]
                 = Strip(Decode(SubSeq(generate_ids[i],
                                       Len(gen_call.input_ids[i]) + 1,
                                       Len(generate_ids[i]))))

C5_ExpansionInPlace ==
    LET IsPh(t) == t = image_token_index
        NotPh(t) == t # image_token_index
        K(s) == Len(SelectSeq(s, IsPh))
        Pos(s, i) == (i - 1) + K(SubSeq(s, 1, i - 1)) * (p_N - 1)
        IsExpansion(in, out) ==
            /\ Len(out) = Len(in) + K(in) * (p_N - 1)
            /\ \A i \in 1..Len(in) :
                 IF IsPh(in[i])
                 THEN \A j \in 1..p_N : out[Pos(in, i) + j] = image_token_index
                 ELSE out[Pos(in, i) + 1] = in[i]
            /\ SelectSeq(out, NotPh) = SelectSeq(in, NotPh)
    IN /\ p_pc = "single" => IsExpansion(p_convo[1], p_single)
       /\ \A i \in 1..Len(p_ids_list) : IsExpansion(p_convo[i], p_ids_list[i])

C5_Witness ==
    /\ p_pc = "loop"
    /\ p_N = 2
    /\ p_convo = <<<<2, 1>>, <<1, 1>>>>
    /\ p_ids_list = <<<<2, 1, 1>>, <<1, 1, 1, 1>>>>

\* C6: after padding a batch of k >= 1 rows of lengths L1..Lk, the token
\* tensor and the attention mask both have width max(L1..Lk); row i of the
\* token tensor is example i's tokens followed by filler 0; row i of the
\* mask is Li ones followed by zeros.
C6_RightPaddingToBatchMax ==
    p_pc = "padded" =>
        LET k == Len(p_ids_list)
            L(i) == Len(p_ids_list[i])
            W == Len(p_padded[1])
        IN /\ k >= 1
           /\ Len(p_padded) = k /\ Len(p_mask) = k
           /\ \A i \in 1..k : L(i) <= W
           /\ \E i \in 1..k : L(i) = W
           /\ \A i \in 1..k :
                /\ Len(p_padded[i]) = W
                /\ Len(p_mask[i]) = W
                /\ \A j \in 1..W :
                     /\ j <= L(i) => (p_padded[i][j] = p_ids_list[i][j] /\ p_mask[i][j] = 1)
                     /\ j > L(i) => (p_padded[i][j] = 0 /\ p_mask[i][j] = 0)

C6_Witness ==
    /\ p_pc = "padded"
    /\ Len(p_ids_list) = 2
    /\ Len(p_ids_list[1]) = 4
    /\ Len(p_ids_list[2]) = 1
    /\ p_padded[2] = <<2, 0, 0, 0>>
    /\ p_mask[2] = <<1, 0, 0, 0>>

\* C7: in infer, the ids handed to decode are the generated sequence without
\* its first P positions, P being the length of the encoded prompt after the
\* image tokens were repeated; when generation adds no token the ids are
\* empty and infer returns the empty string.
C7_InferTrimsExactPromptLength ==
    (call.kind = "infer" /\ decoded_ids # <<>>) =>
        LET enc == EncodeConvo(call.prompts[1])
            k == Len(SelectSeq(enc, LAMBDA t : t = image_token_index))
            P == Len(enc) + k * (ImageSeqLength - 1)
        IN /\ decoded_ids[1] = SubSeq(generate_ids[1], P + 1, Len(generate_ids[1]))
           /\ Len(generate_ids[1]) = P =>
                /\ decoded_ids[1] = <<>>
                /\ captions[1] = <<>>
                /\ pc = "returned" => result.value = <<>>

C7_Witness ==
    /\ pc = "returned"
    /\ call.kind = "infer"
    /\ call.kwargs = [max_new_tokens |-> 0]
    /\ Len(generate_ids[1]) = Len(input_ids[1])
    /\ call.prompts = <<<<"<image>">>>>
    /\ Len(input_ids[1]) = 2 * ImageSeqLength
    /\ result.returned
    /\ result.value = <<>>

\* C8: in infer_batch, generation returning each padded input row followed
\* by that row's new tokens, the ids decoded for row i are exactly row i's
\* new tokens (all of them, no prompt token, no padding token), every row
\* being trimmed by the batch's largest prompt length.
C8_BatchRowsKeepOnlyNewTokens ==
    call.kind = "infer_batch" =>
        \A i \in 1..Len(decoded_ids) :
            LET PLen(r) ==
                    LET enc == EncodeConvo(call.prompts[r])
                    IN Len(enc)
                         + Len(SelectSeq(enc, LAMBDA t : t = image_token_index))
                             * (ImageSeqLength - 1)
            IN /\ decoded_ids[i] = new_tokens[i]
               /\ \A r \in 1..Len(generate_ids) :
                     PLen(r) <= Len(generate_ids[i]) - Len(decoded_ids[i])
               /\ \E r \in 1..Len(generate_ids) :
                     PLen(r) = Len(generate_ids[i]) - Len(decoded_ids[i])

C8_Witness ==
    /\ pc = "returned"
    /\ call.kind = "infer_batch"
    /\ Len(decoded_ids) = 2
    /\ call.prompts = <<<<"a">>, <<"a", "!">>>>
    /\ attention_mask[1][Len(attention_mask[1])] = 0
    /\ attention_mask[2][Len(attention_mask[2])] = 1
    /\ Len(new_tokens[1]) = 2
    /\ decoded_ids = new_tokens

\* C9: in infer and infer_batch, generation receives max_new_tokens = 300
\* when the caller gave none and the caller's value otherwise, always with
\* sampling on, no suppressed tokens and caching on, and with every other
\* option of the caller unchanged.
C9_GenerationOptions ==
    gen_call.called =>
        /\ gen_call.do_sample = TRUE
        /\ gen_call.suppress_tokens = "None"
        /\ gen_call.use_cache = TRUE
        /\ gen_call.kwargs.max_new_tokens
             = (IF "max_new_tokens" \in DOMAIN call.kwargs
                THEN call.kwargs.max_new_tokens ELSE 300)
        /\ DOMAIN gen_call.kwargs = DOMAIN call.kwargs \cup {"max_new_tokens"}
        /\ \A key \in DOMAIN call.kwargs : gen_call.kwargs[key] = call.kwargs[key]

C9_Witness ==
    /\ gen_call.called
    /\ call.kind = "infer_batch"
    /\ call.kwargs = [top_k |-> 5]
    /\ gen_call.kwargs = [top_k |-> 5, max_new_tokens |-> 300]
    /\ pc = "returned"

\* C10: a call that returns has opened the timing scope, preprocessed,
\* generated once, decoded every row, closed the scope and updated the
\* counter once, in that order; the counter is untouched until then; the
\* scope is open during the work and closed after success and after failure.
C10_StepOrder ==
    LET rows == IF call.kind = "infer" THEN 1
                ELSE Min(Len(call.images), Len(call.prompts))
        Full == <<"open", "preprocess", "generate">>
                  \o [r \in 1..rows |-> "decode"] \o <<"close", "count">>
    IN /\ pc \in {"counted", "returned"} => trace = Full
       /\ pc \notin {"counted", "returned"} => count = count_at_call
       /\ pc \in {"entered", "preprocessed", "generated"} => scope_open
       /\ pc \in {"exited", "counted", "returned", "raised", "idle"} => ~scope_open
       /\ pc = "raised" => trace[Len(trace)] = "close"

C10_Witness ==
    /\ pc = "returned"
    /\ call.kind = "infer_batch"
    /\ trace = <<"open", "preprocess", "generate", "decode", "decode",
                 "close", "count">>
    /\ count = count_at_call + 2

====
